---------------------------- MODULE Spec2Model ----------------------------
(***************************************************************************)
(* A model of wasm-logger (src/lib.rs): the Config builder, the            *)
(* WasmLogger implementation of log::Log (enabled, log, flush) and init.   *)
(*                                                                         *)
(* Text is modelled as a sequence of one-character strings, so that        *)
(* prefixes, markers and separators are positions in a sequence.  An       *)
(* Option<T> is a sequence of length at most one: None is << >> and        *)
(* Some(x) is << x >>.                                                     *)
(***************************************************************************)
EXTENDS Integers, Sequences, FiniteSets

VARIABLES
    config,     \* Option<Config>: the Config value the application is building
    logger,     \* Option<WasmLogger>: the log crate's installed logger
    max_level,  \* the log crate's process-wide maximum level filter
    console,    \* the console calls issued by the operation that ran last
    inits,      \* number of init calls made so far
    first,      \* Option<Config>: the Config passed to the first init call
    called,     \* the argument of the last module_prefix call, if any, made
                \* on the Config being built (.building) and on the Config
                \* passed to the first init call (.first)
    input,      \* the Record of the application's log statement and the
                \* clock's reading when it runs
    alive,      \* FALSE once the application has been aborted by a panic
    last        \* the operation that ran last, its inputs and its result

vars ==
    <<config, logger, max_level, console, inits, first, called, input, alive, last>>

(***************************************************************************)
(* Option<T>                                                               *)
(***************************************************************************)
None == << >>

Some(x) == << x >>

IsSome(o) == Len(o) = 1

Unwrap(o) == o[1]

(***************************************************************************)
(* log::Level and log::LevelFilter.  The log crate numbers the levels      *)
(* Error = 1 .. Trace = 5, and LevelFilter adds Off = 0; a record passes   *)
(* a filter when its number is at most the filter's.                       *)
(***************************************************************************)
Levels == {"Error", "Warn", "Info", "Debug", "Trace"}

LevelNumber(level) ==
    CASE level = "Error" -> 1
      [] level = "Warn"  -> 2
      [] level = "Info"  -> 3
      [] level = "Debug" -> 4
      [] level = "Trace" -> 5

\* Display for log::Level, as format!("{}", record.level()) renders it.
LevelName(level) ==
    CASE level = "Error" -> <<"E", "R", "R", "O", "R">>
      [] level = "Warn"  -> <<"W", "A", "R", "N">>
      [] level = "Info"  -> <<"I", "N", "F", "O">>
      [] level = "Debug" -> <<"D", "E", "B", "U", "G">>
      [] level = "Trace" -> <<"T", "R", "A", "C", "E">>

\* LevelFilter::Off, the log crate's maximum level before set_max_level.
LevelFilterOff == LevelNumber("Error") - 1

\* Level::to_level_filter
ToLevelFilter(level) == LevelNumber(level)

(***************************************************************************)
(* Config and its builder                                                  *)
(***************************************************************************)
\* Config::new(level)
ConfigNew(level) ==
    [level |-> level,
     module_prefix |-> None,
     message_location |-> "SameLine",
     timestamp_format |-> None]

\* impl Default for Config
ConfigDefault ==
    [level |-> "Debug",
     module_prefix |-> None,
     message_location |-> "SameLine",
     timestamp_format |-> None]

\* Config::timestamp_format(self, ts_fmt)
WithTimestampFormat(self, ts_fmt) ==
    [self EXCEPT !.timestamp_format = Some(ts_fmt)]

\* A setter that keeps a prefix already set (first call wins).
WithModulePrefixKeepFirst(self, module_prefix) ==
    IF IsSome(self.module_prefix)
    THEN self
    ELSE [self EXCEPT !.module_prefix = Some(module_prefix)]

\* Config::module_prefix(self, module_prefix)
WithModulePrefix(self, module_prefix) ==
    [self EXCEPT !.module_prefix = Some(module_prefix)]

\* Config::message_on_new_line(self)
WithMessageOnNewLine(self) ==
    [self EXCEPT !.message_location = "NewLine"]

(***************************************************************************)
(* Style::new                                                              *)
(***************************************************************************)
StyleBase == "color: white; padding: 0 3px; background:"

StyleNew ==
    [lvl_trace |-> StyleBase \o " gray;",
     lvl_debug |-> StyleBase \o " blue;",
     lvl_info  |-> StyleBase \o " green;",
     lvl_warn  |-> StyleBase \o " orange;",
     lvl_error |-> StyleBase \o " darkred;",
     tgt  |-> "font-weight: bold; color: inherit",
     args |-> "background: inherit; color: inherit"]

(***************************************************************************)
(* str::starts_with and WasmLogger::enabled                                *)
(***************************************************************************)
\* s.starts_with(p): p is a literal prefix of s at position 0.
StartsWith(s, p) ==
    /\ Len(p) <= Len(s)
    /\ \A i \in 1..Len(p) : s[i] = p[i]

\* A filter that accepts the prefix anywhere in the target (str::contains).
EnabledContains(self, metadata) ==
    IF IsSome(self.config.module_prefix)
    THEN LET prefix == Unwrap(self.config.module_prefix)
             target == metadata.target
         IN  \E k \in 0..Len(target) :
                 /\ k + Len(prefix) <= Len(target)
                 /\ \A i \in 1..Len(prefix) : target[k + i] = prefix[i]
    ELSE TRUE

\* WasmLogger::enabled(&self, metadata)
Enabled(self, metadata) ==
    IF IsSome(self.config.module_prefix)
    THEN StartsWith(metadata.target, Unwrap(self.config.module_prefix))
    ELSE TRUE

(***************************************************************************)
(* Text helpers                                                            *)
(***************************************************************************)
Digits == <<"0", "1", "2", "3", "4", "5", "6", "7", "8", "9">>

DigitChar(d) == Digits[d + 1]

RECURSIVE ToString(_)
\* u32::to_string / Display for an unsigned integer: decimal, no padding.
ToString(n) ==
    IF n < 10
    THEN <<DigitChar(n)>>
    ELSE ToString(n \div 10) \o <<DigitChar(n % 10)>>

RECURSIVE PadZero(_, _)
\* {:0w}: decimal, zero-padded on the left to at least w digits.
PadZero(n, w) ==
    LET s == ToString(n)
    IN  IF Len(s) >= w THEN s ELSE <<"0">> \o PadZero(n, w - 1)

(***************************************************************************)
(* The clock and chrono.  js_sys::Date::now() is a count of milliseconds   *)
(* since 1970-01-01T00:00:00Z; an instant is held as [days, ms] with       *)
(* Date::now() = days * 86400000 + ms and 0 <= ms < 86400000, which keeps  *)
(* every number within TLC's integers.                                     *)
(***************************************************************************)
\* NaiveDateTime::from_timestamp_millis: None when the date is outside
\* chrono's NaiveDate range (its last day is in year 262143 or 262142,
\* depending on the release; days 95026601 and 95026236 after the epoch).
\* The clock never reads before the epoch here.
FromTimestampMillis(now) ==
    IF now.days <= 95026236
    THEN Some(now)
    ELSE None

\* The civil date of a day count (proleptic Gregorian calendar).
CivilFromDays(days) ==
    LET z   == days + 719468
        era == z \div 146097
        doe == z - era * 146097
        yoe == (doe - doe \div 1460 + doe \div 36524 - doe \div 146096) \div 365
        doy == doe - (365 * yoe + yoe \div 4 - yoe \div 100)
        mp  == (5 * doy + 2) \div 153
        d   == doy - (153 * mp + 2) \div 5 + 1
        m   == IF mp < 10 THEN mp + 3 ELSE mp - 9
        y   == yoe + era * 400 + (IF m <= 2 THEN 1 ELSE 0)
    IN  [year |-> y, month |-> m, day |-> d]

Hour(dt) == dt.ms \div 3600000

Minute(dt) == (dt.ms \div 60000) % 60

Second(dt) == (dt.ms \div 1000) % 60

Millisecond(dt) == dt.ms % 1000

WeekdayNames ==
    << <<"S", "u", "n">>, <<"M", "o", "n">>, <<"T", "u", "e">>,
       <<"W", "e", "d">>, <<"T", "h", "u">>, <<"F", "r", "i">>,
       <<"S", "a", "t">> >>

MonthNames ==
    << <<"J", "a", "n">>, <<"F", "e", "b">>, <<"M", "a", "r">>,
       <<"A", "p", "r">>, <<"M", "a", "y">>, <<"J", "u", "n">>,
       <<"J", "u", "l">>, <<"A", "u", "g">>, <<"S", "e", "p">>,
       <<"O", "c", "t">>, <<"N", "o", "v">>, <<"D", "e", "c">> >>

\* 1970-01-01 was a Thursday.
WeekdayName(dt) == WeekdayNames[((dt.days + 4) % 7) + 1]

TimeOfDay(dt) ==
    PadZero(Hour(dt), 2) \o <<":">> \o PadZero(Minute(dt), 2) \o <<":">>
        \o PadZero(Second(dt), 2)

\* DateTime<Utc>::to_rfc2822, e.g. "Thu, 29 Feb 2024 12:34:56 +0000".
\* (chrono releases differ on padding a one-digit day of the month; the
\* instants used here fall on days 10..31, where they agree.)
ToRfc2822(dt) ==
    LET date == CivilFromDays(dt.days)
    IN  WeekdayName(dt) \o <<",", " ">> \o ToString(date.day) \o <<" ">>
            \o MonthNames[date.month] \o <<" ">> \o PadZero(date.year, 4)
            \o <<" ">> \o TimeOfDay(dt) \o <<" ", "+", "0", "0", "0", "0">>

\* DateTime<Utc>::to_rfc3339, e.g. "2024-02-29T12:34:56.789+00:00"; the
\* fraction is written only when it is not zero.
ToRfc3339(dt) ==
    LET date == CivilFromDays(dt.days)
    IN  PadZero(date.year, 4) \o <<"-">> \o PadZero(date.month, 2) \o <<"-">>
            \o PadZero(date.day, 2) \o <<"T">> \o TimeOfDay(dt)
            \o (IF Millisecond(dt) = 0
                THEN << >>
                ELSE <<".">> \o PadZero(Millisecond(dt), 3))
            \o <<"+", "0", "0", ":", "0", "0">>

\* One strftime directive of chrono's format syntax.
Directive(c, dt) ==
    LET date == CivilFromDays(dt.days)
    IN  CASE c = "Y" -> PadZero(date.year, 4)
          [] c = "m" -> PadZero(date.month, 2)
          [] c = "d" -> PadZero(date.day, 2)
          [] c = "H" -> PadZero(Hour(dt), 2)
          [] c = "M" -> PadZero(Minute(dt), 2)
          [] c = "S" -> PadZero(Second(dt), 2)
          [] c = "n" -> <<"\n">>
          [] c = "%" -> <<"%">>

RECURSIVE FormatCustom(_, _)
\* dt.format(fmt).to_string() for a well-formed pattern: directives are
\* replaced, every other character is copied.
FormatCustom(fmt, dt) ==
    IF fmt = << >>
    THEN << >>
    ELSE IF Head(fmt) = "%"
         THEN Directive(fmt[2], dt) \o FormatCustom(SubSeq(fmt, 3, Len(fmt)), dt)
         ELSE <<Head(fmt)>> \o FormatCustom(Tail(fmt), dt)

(***************************************************************************)
(* TimestampFormat                                                         *)
(***************************************************************************)
Rfc2822 == <<"Rfc2822">>

Rfc3339 == <<"Rfc3339">>

Custom(pattern) == <<"Custom", pattern>>

\* match ts_fmt { Rfc2822 => .., Rfc3339 => .., Custom(fmt) => .. }
RenderTimestamp(ts_fmt, dt) ==
    CASE ts_fmt[1] = "Rfc2822" -> ToRfc2822(dt)
      [] ts_fmt[1] = "Rfc3339" -> ToRfc3339(dt)
      [] ts_fmt[1] = "Custom"  -> FormatCustom(ts_fmt[2], dt)

\* The timestamp field of WasmLogger::log: empty when no format is
\* configured or the instant cannot be converted, else the rendered time
\* followed by one space.
Timestamp(timestamp_format, now) ==
    LET rendered ==
            IF IsSome(timestamp_format)
            THEN LET ndt == FromTimestampMillis(now)
                 IN  IF IsSome(ndt)
                     THEN Some(RenderTimestamp(Unwrap(timestamp_format), Unwrap(ndt)))
                     ELSE None
            ELSE None
    IN  IF IsSome(rendered) THEN Unwrap(rendered) \o <<" ">> ELSE << >>

(***************************************************************************)
(* WasmLogger::log: the formatter                                          *)
(***************************************************************************)
\* The console's style directive.
Marker == <<"%", "c">>

Unknown == <<"[", "U", "n", "k", "n", "o", "w", "n", "]">>

\* record.metadata()
Metadata(record) == [level |-> record.level, target |-> record.target]

\* A separator with the two placements exchanged.
MessageSeparatorSwapped(message_location) ==
    CASE message_location = "NewLine"  -> <<" ">>
      [] message_location = "SameLine" -> <<"\n">>

\* let message_separator = match self.config.message_location { .. }
MessageSeparator(message_location) ==
    CASE message_location = "NewLine"  -> <<"\n">>
      [] message_location = "SameLine" -> <<" ">>

\* A location that always shows the target, whether a file is known or not.
LocationTargetOnly(record) == record.target

\* record.file().unwrap_or_else(|| record.target())
Location(record) ==
    IF IsSome(record.file) THEN Unwrap(record.file) ELSE record.target

\* record.line().map_or_else(|| "[Unknown]".to_string(), |line| line.to_string())
LineText(record) ==
    IF IsSome(record.line) THEN ToString(Unwrap(record.line)) ELSE Unknown

\* The layout "%c{} {}{}:{} %c{}%c": level, space, timestamp, location,
\* separator, marker, message, marker (the second marker after the
\* separator and the third at the end).
FormatTextMarkersAroundMessage(self, record, now) ==
    Marker \o LevelName(record.level) \o <<" ">>
        \o Timestamp(self.config.timestamp_format, now)
        \o Location(record) \o <<":">> \o LineText(record)
        \o MessageSeparator(self.config.message_location)
        \o Marker \o record.args \o Marker

\* format!("%c{}%c {}{}:{}%c{}{}", level, timestamp, file, line,
\*         message_separator, args)
FormatText(self, record, now) ==
    Marker \o LevelName(record.level) \o Marker \o <<" ">>
        \o Timestamp(self.config.timestamp_format, now)
        \o Location(record) \o <<":">> \o LineText(record)
        \o Marker \o MessageSeparator(self.config.message_location)
        \o record.args

(***************************************************************************)
(* WasmLogger::log: the dispatcher.  A console call is the channel and     *)
(* the arguments passed to it.                                             *)
(***************************************************************************)
ConsoleCall(channel, args) == [channel |-> channel, args |-> args]

\* A dispatcher that passes the tgt and args styles in the other order.
DispatchStylesSwapped(level, s, style) ==
    LET tgt_style  == style.tgt
        args_style == style.args
    IN  CASE level = "Trace" ->
                ConsoleCall("debug", <<s, style.lvl_trace, args_style, tgt_style>>)
          [] level = "Debug" ->
                ConsoleCall("log", <<s, style.lvl_debug, args_style, tgt_style>>)
          [] level = "Info" ->
                ConsoleCall("info", <<s, style.lvl_info, args_style, tgt_style>>)
          [] level = "Warn" ->
                ConsoleCall("warn", <<s, style.lvl_warn, args_style, tgt_style>>)
          [] level = "Error" ->
                ConsoleCall("error", <<s, style.lvl_error, args_style, tgt_style>>)

\* A dispatcher that sends Trace records to console.log, like Debug ones.
DispatchTraceToLog(level, s, style) ==
    LET tgt_style  == style.tgt
        args_style == style.args
    IN  CASE level = "Trace" ->
                ConsoleCall("log", <<s, style.lvl_trace, tgt_style, args_style>>)
          [] level = "Debug" ->
                ConsoleCall("log", <<s, style.lvl_debug, tgt_style, args_style>>)
          [] level = "Info" ->
                ConsoleCall("info", <<s, style.lvl_info, tgt_style, args_style>>)
          [] level = "Warn" ->
                ConsoleCall("warn", <<s, style.lvl_warn, tgt_style, args_style>>)
          [] level = "Error" ->
                ConsoleCall("error", <<s, style.lvl_error, tgt_style, args_style>>)

\* match record.level() { Level::Trace => console::debug_4(..), .. }
Dispatch(level, s, style) ==
    LET tgt_style  == style.tgt
        args_style == style.args
    IN  CASE level = "Trace" ->
                ConsoleCall("debug", <<s, style.lvl_trace, tgt_style, args_style>>)
          [] level = "Debug" ->
                ConsoleCall("log", <<s, style.lvl_debug, tgt_style, args_style>>)
          [] level = "Info" ->
                ConsoleCall("info", <<s, style.lvl_info, tgt_style, args_style>>)
          [] level = "Warn" ->
                ConsoleCall("warn", <<s, style.lvl_warn, tgt_style, args_style>>)
          [] level = "Error" ->
                ConsoleCall("error", <<s, style.lvl_error, tgt_style, args_style>>)

\* WasmLogger::log(&self, record): the console calls it makes.
Log(self, record, now) ==
    IF Enabled(self, Metadata(record))
    THEN <<Dispatch(record.level, FormatText(self, record, now), self.style)>>
    ELSE << >>

(***************************************************************************)
(* init                                                                    *)
(***************************************************************************)
\* Display for log::SetLoggerError
SetLoggerError ==
    "attempted to set a logger after the logging system was already initialized"

\* log::set_boxed_logger: installs the logger unless one is installed.
SetBoxedLogger(installed, wl) ==
    IF IsSome(installed)
    THEN [ok |-> FALSE, logger |-> installed]
    ELSE [ok |-> TRUE, logger |-> Some(wl)]

\* An init that sets the maximum level before it tries to install.
InitSetsLevelFirst(installed, level_filter, cfg) ==
    LET wl == [config |-> cfg, style |-> StyleNew]
        r  == SetBoxedLogger(installed, wl)
    IN  [logger    |-> r.logger,
         max_level |-> ToLevelFilter(cfg.level),
         console   |-> IF r.ok
                       THEN << >>
                       ELSE <<ConsoleCall("error", <<SetLoggerError>>)>>,
         alive     |-> TRUE]

\* An init that unwraps the result of set_boxed_logger.
InitUnwrap(installed, level_filter, cfg) ==
    LET wl == [config |-> cfg, style |-> StyleNew]
        r  == SetBoxedLogger(installed, wl)
    IN  [logger    |-> r.logger,
         max_level |-> IF r.ok THEN ToLevelFilter(cfg.level) ELSE level_filter,
         console   |-> << >>,
         alive     |-> r.ok]

\* An init that leaves the maximum level alone.
InitKeepsLevel(installed, level_filter, cfg) ==
    LET wl == [config |-> cfg, style |-> StyleNew]
        r  == SetBoxedLogger(installed, wl)
    IN  [logger    |-> r.logger,
         max_level |-> level_filter,
         console   |-> IF r.ok
                       THEN << >>
                       ELSE <<ConsoleCall("error", <<SetLoggerError>>)>>,
         alive     |-> TRUE]

\* init(config): the installed logger, the maximum level and the console
\* calls it leaves; neither arm of its match panics.
InitLogger(installed, level_filter, cfg) ==
    LET max_level_ == cfg.level
        wl == [config |-> cfg, style |-> StyleNew]
        r  == SetBoxedLogger(installed, wl)
    IN  [logger    |-> r.logger,
         max_level |-> IF r.ok THEN ToLevelFilter(max_level_) ELSE level_filter,
         console   |-> IF r.ok
                       THEN << >>
                       ELSE <<ConsoleCall("error", <<SetLoggerError>>)>>,
         alive     |-> TRUE]

(***************************************************************************)
(* The logging facade (the log crate's macros): a record reaches the       *)
(* installed logger's log method only when its level passes the            *)
(* process-wide maximum level; with no logger installed it is dropped.     *)
(***************************************************************************)
FacadeLog(installed, level_filter, record, now) ==
    IF LevelNumber(record.level) <= level_filter /\ IsSome(installed)
    THEN Log(Unwrap(installed), record, now)
    ELSE << >>

(***************************************************************************)
(* Bounds and inputs                                                       *)
(***************************************************************************)
\* The longest module prefix and target path tried against the filter.
MaxLen == 2

\* The most init calls in one run.
MaxInits == 3

FilterAlphabet == {"a", "A", "b"}

RECURSIVE StringsUpTo(_)
StringsUpTo(n) ==
    IF n = 0
    THEN {<< >>}
    ELSE LET shorter == StringsUpTo(n - 1)
         IN  shorter \cup {Append(s, c) : s \in shorter, c \in FilterAlphabet}

FilterStrings == StringsUpTo(MaxLen)

AppNet == <<"a", "p", "p", ":", ":", "n", "e", "t">>

AppUi == <<"a", "p", "p", ":", ":", "u", "i">>

NetRs == <<"n", "e", "t", ".", "r", "s">>

ConnLost == <<"c", "o", "n", "n", " ", "l", "o", "s", "t">>

\* 2024-02-29T12:34:56.789Z, 2026-11-14T00:00:00Z, and the last instant a
\* JavaScript Date can hold (year 275760), which chrono cannot represent.
Instants ==
    {[days |-> 19782, ms |-> 45296789],
     [days |-> 20771, ms |-> 0],
     [days |-> 100000000, ms |-> 0]}

Patterns ==
    {<<"%", "Y", "-", "%", "m", "-", "%", "d">>,
     <<"%", "H", ":", "%", "M", ":", "%", "S">>,
     <<"%", "n">>,
     <<"%", "%", "c">>}

TimestampFormats == {Rfc2822, Rfc3339} \cup {Custom(pattern) : pattern \in Patterns}

\* The Configs the builder yields from Config::new(level) with each setter
\* called or not.
BuiltConfigs(levels, prefixes, formats) ==
    {c \in [level : levels,
            module_prefix : {None} \cup {Some(x) : x \in prefixes},
            message_location : {"SameLine", "NewLine"},
            timestamp_format : {None} \cup {Some(f) : f \in formats}] : TRUE}

RecordsOf(levels, targets, files, lines, messages) ==
    [level : levels, target : targets, file : files, line : lines, args : messages]

FormatConfigs == BuiltConfigs({"Info"}, {AppNet}, TimestampFormats)

FormatRecords ==
    RecordsOf(Levels, {AppNet, AppUi, << >>}, {None, Some(NetRs)},
              {None, Some(7), Some(42)},
              {ConnLost, << >>, <<"%", "c">>, <<"a", "\n", "b">>})

LifecyclePrefixes == {<<"a">>}

LifecycleFormats == {Rfc3339}

LifecycleRecords ==
    RecordsOf(Levels, {<<"a", "b">>, <<"b">>}, {None}, {Some(7)}, {<<"m">>})

LifecycleInstants == {[days |-> 19782, ms |-> 45296789]}

(***************************************************************************)
(* Actions: one per operation of the crate                                 *)
(***************************************************************************)
Did(op, arg, now, pre, res) ==
    [op |-> op, arg |-> arg, now |-> now, pre |-> pre, res |-> res]

\* let config = Config::new(level);
NewAct(levels) ==
    \E level \in levels :
        /\ alive
        /\ config' = Some(ConfigNew(level))
        /\ console' = << >>
        /\ called' = [called EXCEPT !.building = None]
        /\ last' = Did("new", level, None, None, None)
        /\ UNCHANGED <<logger, max_level, inits, first, input, alive>>

\* let config = Config::default();
DefaultAct ==
    /\ alive
    /\ config' = Some(ConfigDefault)
    /\ console' = << >>
    /\ called' = [called EXCEPT !.building = None]
    /\ last' = Did("default", None, None, None, None)
    /\ UNCHANGED <<logger, max_level, inits, first, input, alive>>

\* let config = config.timestamp_format(ts_fmt);
TimestampFormatAct(formats) ==
    \E ts_fmt \in formats :
        /\ alive
        /\ IsSome(config)
        /\ config' = Some(WithTimestampFormat(Unwrap(config), ts_fmt))
        /\ console' = << >>
        /\ last' = Did("timestamp_format", ts_fmt, None, config, None)
        /\ UNCHANGED <<logger, max_level, inits, first, called, input, alive>>

\* let config = config.module_prefix(module_prefix);
ModulePrefixAct(prefixes) ==
    \E module_prefix \in prefixes :
        /\ alive
        /\ IsSome(config)
        /\ config' = Some(WithModulePrefix(Unwrap(config), module_prefix))
        /\ console' = << >>
        /\ called' = [called EXCEPT !.building = Some(module_prefix)]
        /\ last' = Did("module_prefix", module_prefix, None, config, None)
        /\ UNCHANGED <<logger, max_level, inits, first, input, alive>>

\* let config = config.message_on_new_line();
MessageOnNewLineAct ==
    /\ alive
    /\ IsSome(config)
    /\ config' = Some(WithMessageOnNewLine(Unwrap(config)))
    /\ console' = << >>
    /\ last' = Did("message_on_new_line", None, None, config, None)
    /\ UNCHANGED <<logger, max_level, inits, first, called, input, alive>>

\* init(config): the Config is moved into the call.
InitAct ==
    /\ alive
    /\ IsSome(config)
    /\ inits < MaxInits
    /\ LET r == InitLogger(logger, max_level, Unwrap(config))
       IN  /\ logger' = r.logger
           /\ max_level' = r.max_level
           /\ console' = r.console
           /\ alive' = r.alive
    /\ config' = None
    /\ inits' = inits + 1
    /\ first' = IF inits = 0 THEN config ELSE first
    /\ called' = [building |-> None,
                  first |-> IF inits = 0 THEN called.building ELSE called.first]
    /\ last' = Did("init", Unwrap(config), None,
                   [logger |-> logger, max_level |-> max_level], None)
    /\ UNCHANGED input

\* log::logger().enabled(&metadata), with a logger installed
EnabledAct(targets) ==
    \E target \in targets :
        LET metadata == [level |-> "Info", target |-> target]
        IN  /\ alive
            /\ IsSome(logger)
            /\ console' = << >>
            /\ last' = Did("enabled", metadata, None, None,
                           Some(Enabled(Unwrap(logger), metadata)))
            /\ UNCHANGED <<config, logger, max_level, inits, first, called, input, alive>>

\* log::logger().log(&record), with a logger installed
LogAct ==
    LET record == input.record
        now    == input.now
    IN  /\ alive
        /\ IsSome(logger)
        /\ console' = Log(Unwrap(logger), record, now)
        /\ last' = Did("log", record, Some(now), None,
                       Some(Enabled(Unwrap(logger), Metadata(record))))
        /\ UNCHANGED <<config, logger, max_level, inits, first, called, input, alive>>

\* log::logger().flush(), with a logger installed: fn flush(&self) {}
FlushAct ==
    /\ alive
    /\ IsSome(logger)
    /\ console' = << >>
    /\ last' = Did("flush", None, None, None, None)
    /\ UNCHANGED <<config, logger, max_level, inits, first, called, input, alive>>

\* log::log!(target: .., level, ..) anywhere in the application
FacadeAct ==
    LET record == input.record
        now    == input.now
    IN  /\ alive
        /\ console' = FacadeLog(logger, max_level, record, now)
        /\ last' = Did("facade", record, Some(now), None, None)
        /\ UNCHANGED <<config, logger, max_level, inits, first, called, input, alive>>

(***************************************************************************)
(* Specifications                                                          *)
(***************************************************************************)
\* The process before any init call: no logger installed, the maximum level
\* Off, nothing on the console.
Start(configs, records, instants) ==
    /\ config \in configs
    /\ input \in [record : records, now : instants]
    /\ logger = None
    /\ max_level = LevelFilterOff
    /\ console = << >>
    /\ inits = 0
    /\ first = None
    /\ called = [building |-> IF IsSome(config)
                              THEN Unwrap(config).module_prefix
                              ELSE None,
                 first |-> None]
    /\ alive = TRUE
    /\ last = Did("start", None, None, None, None)

\* The whole life of the process: Configs are built, init is called any
\* number of times, and the application logs through the facade, its only
\* way to the installed logger.  No
\* operation reads what an earlier log call did, so one run follows one
\* log statement and the initial states range over the statements.
Init == Start({None}, LifecycleRecords, LifecycleInstants)

Next ==
    \/ NewAct(Levels)
    \/ DefaultAct
    \/ TimestampFormatAct(LifecycleFormats)
    \/ ModulePrefixAct(LifecyclePrefixes)
    \/ MessageOnNewLineAct
    \/ InitAct
    \/ FacadeAct

Spec == Init /\ [][Next]_vars

\* The filter: a Config::new(level) takes any module prefixes, is installed,
\* and is asked about any target.
InitFilter ==
    Start({Some(ConfigNew(level)) : level \in Levels},
          RecordsOf({"Info"}, {<<"a">>}, {None}, {None}, {<<"m">>}),
          LifecycleInstants)

NextFilter ==
    \/ ModulePrefixAct(FilterStrings)
    \/ InitAct
    \/ EnabledAct(FilterStrings)

SpecFilter == InitFilter /\ [][NextFilter]_vars

\* The formatter and the dispatcher: a built Config is installed and
\* records of every shape are logged at several instants.
InitFormat == Start({Some(c) : c \in FormatConfigs}, FormatRecords, Instants)

NextFormat ==
    \/ InitAct
    \/ LogAct
    \/ FlushAct

SpecFormat == InitFormat /\ [][NextFormat]_vars

(***************************************************************************)
(* Properties                                                              *)
(***************************************************************************)
\* The installed logger, and the text of the record log has just emitted.
Installed == Unwrap(logger)

Emitted == last.op = "log" /\ console # << >>

Text == console[1].args[1]

\* The number of positions at which pat occurs in s.
Occurrences(s, pat) ==
    Cardinality({i \in 1..Len(s) :
        /\ i + Len(pat) - 1 <= Len(s)
        /\ \A j \in 1..Len(pat) : s[i + j - 1] = pat[j]})

\* p is a literal, case-sensitive prefix of s at position 0.
IsLiteralPrefix(p, s) == Len(p) <= Len(s) /\ SubSeq(s, 1, Len(p)) = p

\* C1: enabled returns true when the installed Config has no module prefix,
\* and otherwise exactly when the target starts with the prefix, literally
\* and case-sensitively, at position 0 (whatever the target, the empty one
\* included); the prefix in force is the argument of the last module_prefix
\* call made on the Config, each call replacing the prefix set before.
C1_EnabledIffLiteralPrefix ==
    /\ last.op = "module_prefix" =>
           Unwrap(config).module_prefix = Some(last.arg)
    /\ last.op = "enabled" =>
           Unwrap(last.res) =
               IF called.first = None
               THEN TRUE
               ELSE IsLiteralPrefix(Unwrap(called.first), last.arg.target)

\* C1 witness: enabled has refused the target "Ab" for the prefix "a", which
\* matches it only when case is folded.
C1_Witness ==
    /\ last.op = "enabled"
    /\ called.first = Some(<<"a">>)
    /\ last.arg.target = <<"A", "b">>
    /\ last.res = Some(FALSE)

\* The console channel each severity is routed to.
ChannelOf(level) ==
    CASE level = "Trace" -> "debug"
      [] level = "Debug" -> "log"
      [] level = "Info"  -> "info"
      [] level = "Warn"  -> "warn"
      [] level = "Error" -> "error"

\* C2: a log(record) call makes exactly one console call when
\* enabled(record) is true and none when it is false; the one call goes to
\* the channel of the record's severity (Trace to debug, Debug to log, Info
\* to info, Warn to warn, Error to error).
C2_OneCallOnSeverityChannel ==
    last.op = "log" =>
        IF Enabled(Installed, Metadata(last.arg))
        THEN /\ Len(console) = 1
             /\ console[1].channel = ChannelOf(last.arg.level)
        ELSE console = << >>

\* C2 witness: with the prefix "app::net" installed, a Trace record of
\* "app::net" has gone to the debug channel.
C2_Witness ==
    /\ last.op = "log"
    /\ Installed.config.module_prefix = Some(AppNet)
    /\ last.arg.target = AppNet
    /\ last.arg.level = "Trace"
    /\ Len(console) = 1
    /\ console[1].channel = "debug"

\* The style of each severity, as the console receives it.
SeverityStyle(level) ==
    CASE level = "Trace" -> "color: white; padding: 0 3px; background: gray;"
      [] level = "Debug" -> "color: white; padding: 0 3px; background: blue;"
      [] level = "Info"  -> "color: white; padding: 0 3px; background: green;"
      [] level = "Warn"  -> "color: white; padding: 0 3px; background: orange;"
      [] level = "Error" -> "color: white; padding: 0 3px; background: darkred;"

TgtStyle == "font-weight: bold; color: inherit"

ArgsStyle == "background: inherit; color: inherit"

\* C3: every console call that log makes carries the text and then exactly
\* three style arguments, in the order severity style of the record's
\* level, tgt style, args style, whether or not a timestamp is configured,
\* a file is present or a line is present.
C3_ThreeStyleSlotsInOrder ==
    Emitted =>
        /\ Len(console[1].args) = 4
        /\ console[1].args[1] = FormatText(Installed, last.arg, Unwrap(last.now))
        /\ console[1].args[2] = SeverityStyle(last.arg.level)
        /\ console[1].args[3] = TgtStyle
        /\ console[1].args[4] = ArgsStyle

\* C3 witness: a record with neither file nor line has been emitted under a
\* Config with a timestamp format.
C3_Witness ==
    /\ Emitted
    /\ IsSome(Installed.config.timestamp_format)
    /\ last.arg.file = None
    /\ last.arg.line = None
    /\ Len(console[1].args) = 4

\* C4: the text of every emitted record holds exactly three style markers,
\* one for each of the style slots passed with it, whatever the record's
\* message, target and file hold (stated here for the Configs with no
\* timestamp format, where the text is made of the record alone).
C4_ThreeMarkersForThreeSlots ==
    (Emitted /\ Installed.config.timestamp_format = None) =>
        /\ Occurrences(Text, Marker) = 3
        /\ Occurrences(Text, Marker) = Len(console[1].args) - 1

\* The record and the Config of scenario 1.
Scenario1Record ==
    [level |-> "Warn", target |-> AppNet, file |-> Some(NetRs),
     line |-> Some(42), args |-> ConnLost]

Scenario1 ==
    /\ last.op = "log"
    /\ last.arg = Scenario1Record
    /\ Installed.config =
           [level |-> "Info", module_prefix |-> None,
            message_location |-> "SameLine", timestamp_format |-> None]

\* The fields of the text, by the names the layout gives them.
TimestampField ==
    IF Installed.config.timestamp_format = None
           \/ FromTimestampMillis(Unwrap(last.now)) = None
    THEN << >>
    ELSE RenderTimestamp(Unwrap(Installed.config.timestamp_format),
                         Unwrap(last.now)) \o <<" ">>

LocationField ==
    (IF last.arg.file = None THEN last.arg.target ELSE Unwrap(last.arg.file))
        \o <<":">>
        \o (IF last.arg.line = None
            THEN <<"[", "U", "n", "k", "n", "o", "w", "n", "]">>
            ELSE ToString(Unwrap(last.arg.line)))

SeparatorField ==
    IF Installed.config.message_location = "NewLine" THEN <<"\n">> ELSE <<" ">>

\* C5 as stated: the fields run level marker, space, optional timestamp and
\* space, location, separator, tgt marker, message, args marker, so that
\* scenario 1 is emitted on the warn channel with the text
\* "%cWARN net.rs:42 %cconn lost%c" and the styles warn, tgt, args.
C5_LayoutAsStated ==
    /\ Emitted =>
           Text = <<"%", "c">> \o LevelName(last.arg.level) \o <<" ">>
                      \o TimestampField \o LocationField \o SeparatorField
                      \o <<"%", "c">> \o last.arg.args \o <<"%", "c">>
    /\ Scenario1 =>
           console =
               <<[channel |-> "warn",
                  args |-> << <<"%", "c", "W", "A", "R", "N", " ",
                                "n", "e", "t", ".", "r", "s", ":", "4", "2",
                                " ", "%", "c",
                                "c", "o", "n", "n", " ", "l", "o", "s", "t",
                                "%", "c">>,
                              SeverityStyle("Warn"), TgtStyle, ArgsStyle >>]>>

\* C5, amended: the fields run level marker, level name, tgt marker, one
\* space, optional timestamp with one trailing space, location, args
\* marker, separator, message; scenario 1 is emitted on the warn channel
\* with the text "%cWARN%c net.rs:42%c conn lost" and the styles warn, tgt,
\* args.
C5_Layout ==
    /\ Emitted =>
           Text = <<"%", "c">> \o LevelName(last.arg.level) \o <<"%", "c">>
                      \o <<" ">> \o TimestampField \o LocationField
                      \o <<"%", "c">> \o SeparatorField \o last.arg.args
    /\ Scenario1 =>
           console =
               <<[channel |-> "warn",
                  args |-> << <<"%", "c", "W", "A", "R", "N", "%", "c", " ",
                                "n", "e", "t", ".", "r", "s", ":", "4", "2",
                                "%", "c", " ",
                                "c", "o", "n", "n", " ", "l", "o", "s", "t">>,
                              SeverityStyle("Warn"), TgtStyle, ArgsStyle >>]>>

\* C5 witness: scenario 1 has been logged and emitted.
C5_Witness == Scenario1 /\ Len(console) = 1

\* Where the separator stands: just before the message, which ends the text.
SeparatorAt == Len(Text) - Len(last.arg.args)

Newline == <<"\n">>

\* C6 as stated: with NewLine the text holds exactly one newline, right
\* after the location field and right before the tgt style marker.
C6_OneNewlineBeforeMarker ==
    (Emitted /\ Installed.config.message_location = "NewLine") =>
        /\ Occurrences(Text, Newline) = 1
        /\ \E i \in 1..Len(Text) :
               /\ Text[i] = "\n"
               /\ i > Len(LocationField)
               /\ SubSeq(Text, i - Len(LocationField), i - 1) = LocationField
               /\ SubSeq(Text, i + 1, i + 2) = Marker

\* C6, amended: the separator stands right after the args style marker that
\* follows the location field and right before the message text; it is a
\* newline with NewLine and a single space with SameLine; and with NewLine
\* the text holds exactly one newline more than the timestamp, the location
\* and the message hold between them (exactly one when they hold none).
C6_SeparatorAfterLocationMarker ==
    Emitted =>
        LET at == SeparatorAt
        IN  /\ at > Len(LocationField) + 2
            /\ Text[at] = (IF Installed.config.message_location = "NewLine"
                           THEN "\n" ELSE " ")
            /\ SubSeq(Text, at + 1, Len(Text)) = last.arg.args
            /\ SubSeq(Text, at - 2, at - 1) = <<"%", "c">>
            /\ SubSeq(Text, at - 2 - Len(LocationField), at - 3) = LocationField
            /\ Installed.config.message_location = "NewLine" =>
                   Occurrences(Text, Newline) =
                       1 + Occurrences(TimestampField, Newline)
                         + Occurrences(LocationField, Newline)
                         + Occurrences(last.arg.args, Newline)

\* C6 witness: under NewLine a record has been emitted whose text holds
\* exactly one newline.
C6_Witness ==
    /\ Emitted
    /\ Installed.config.message_location = "NewLine"
    /\ last.arg.args = ConnLost
    /\ Occurrences(Text, Newline) = 1
    /\ Text[SeparatorAt] = "\n"

\* The text before the location field: marker, level, marker, space and the
\* timestamp field.
BeforeLocation == 2 + Len(LevelName(last.arg.level)) + 3 + Len(TimestampField)

\* C7: in the text of every emitted record the location field is the file
\* when one is present and the target when none is, then ':', then the line
\* number when one is present and "[Unknown]" when none is; and log formats
\* and emits the record whichever of the optional fields are absent.
C7_LocationField ==
    /\ Emitted =>
           /\ Len(Text) >= BeforeLocation + Len(LocationField)
           /\ SubSeq(Text, BeforeLocation + 1,
                     BeforeLocation + Len(LocationField)) = LocationField
    /\ (last.op = "log" /\ Unwrap(last.res)) => (Len(console) = 1 /\ alive)

\* C7 witness: a record with neither file nor line has been emitted, its
\* location reading "app::ui:[Unknown]".
C7_Witness ==
    /\ Emitted
    /\ last.arg.file = None
    /\ last.arg.line = None
    /\ last.arg.target = AppUi
    /\ LocationField = AppUi \o <<":">> \o Unknown

\* The one console call a failed init makes.
Diagnostic ==
    [channel |-> "error",
     args |-> <<"attempted to set a logger after the logging system was already initialized">>]

\* C8: the first init call installs the logger, and from then on a logger
\* is installed and it is that one; every later init call makes exactly one
\* console call, a single-argument call on the error channel, does not end
\* the application and leaves the logger installed.
C8_InstallOnceThenDiagnose ==
    /\ inits >= 1 =>
           /\ IsSome(logger)
           /\ Installed.config = Unwrap(first)
    /\ (last.op = "init" /\ inits = 1) => console = << >>
    /\ (last.op = "init" /\ inits >= 2) =>
           /\ console = <<Diagnostic>>
           /\ Len(console[1].args) = 1
           /\ IsSome(logger)
    /\ alive

\* C8 witness: a third init call has just printed the diagnostic, with the
\* logger of the first call still installed.
C8_Witness ==
    /\ last.op = "init"
    /\ inits = 3
    /\ console = <<Diagnostic>>
    /\ IsSome(logger)
    /\ alive

\* Severity, ordered Trace < Debug < Info < Warn < Error.
Severity(level) ==
    CASE level = "Trace" -> 1
      [] level = "Debug" -> 2
      [] level = "Info"  -> 3
      [] level = "Warn"  -> 4
      [] level = "Error" -> 5

\* C9: once init(config) has installed the logger, a record logged through
\* the facade reaches a console channel exactly when its severity is at or
\* above config.level and its target passes the module-prefix filter: two
\* checks, and both must pass.
C9_SeverityAndPrefixGates ==
    (last.op = "facade" /\ IsSome(logger)) =>
        LET cfg == Installed.config
        IN  (console # << >>) <=>
                /\ Severity(last.arg.level) >= Severity(cfg.level)
                /\ \/ cfg.module_prefix = None
                   \/ IsLiteralPrefix(Unwrap(cfg.module_prefix), last.arg.target)

\* C9 witness: with level Info and no prefix installed, a Debug record
\* logged through the facade has reached no channel.
C9_Witness ==
    /\ last.op = "facade"
    /\ IsSome(logger)
    /\ Installed.config.level = "Info"
    /\ Installed.config.module_prefix = None
    /\ last.arg.level = "Debug"
    /\ console = << >>

\* C10: an init call after the first changes nothing but the console: the
\* installed logger and the maximum level stay as they were, which is as the
\* first init set them, so that what the facade emits afterwards is what
\* the first Config alone decides.
C10_FailedInitChangesNothing ==
    /\ (last.op = "init" /\ inits >= 2) =>
           /\ logger = last.pre.logger
           /\ max_level = last.pre.max_level
    /\ inits >= 1 =>
           /\ logger = Some([config |-> Unwrap(first), style |-> StyleNew])
           /\ max_level = LevelNumber(Unwrap(first).level)
    /\ (last.op = "facade" /\ inits >= 1) =>
           console =
               FacadeLog(Some([config |-> Unwrap(first), style |-> StyleNew]),
                         LevelNumber(Unwrap(first).level),
                         last.arg, Unwrap(last.now))

\* C10 witness: a second init, given a Config of another level, prefix,
\* timestamp format and message location than the first, has left the
\* first one installed.
C10_Witness ==
    /\ last.op = "init"
    /\ inits = 2
    /\ last.arg.level # Unwrap(first).level
    /\ last.arg.module_prefix # Unwrap(first).module_prefix
    /\ last.arg.timestamp_format # Unwrap(first).timestamp_format
    /\ last.arg.message_location # Unwrap(first).message_location
    /\ Installed.config = Unwrap(first)
    /\ max_level = last.pre.max_level

=============================================================================
